---- MODULE Spec2Model ----
(***************************************************************************)
(* Job application portal: the Session Store (AuthContext: reducer,        *)
(* startup restore, login / signup / loginWithGoogle / logout, mirrored to *)
(* localStorage) and the Application Form (JobApplicationForm: input       *)
(* filtering, whole-form validation, submit and reset).                    *)
(*                                                                         *)
(* JavaScript values are modelled as follows.  null is Null.  A string     *)
(* held in a nullable slot (state.token, a localStorage entry) is Str(v).  *)
(* The text of a JSON document is a sequence of lexemes, so that           *)
(* JSON.stringify and JSON.parse are computed and can fail.  Form text is  *)
(* a sequence of one-character strings.                                    *)
(***************************************************************************)
EXTENDS Integers, Sequences, FiniteSets, TLC

VARIABLES
  state,         \* AuthState held by useReducer
  localStorage,  \* the two keys of window.localStorage
  effectRan,     \* the mount effect of AuthProvider has run
  calls,         \* login / signup / loginWithGoogle calls, in start order
  now,           \* last value read from Date.now()
  lastOp,        \* the handler that ran last (history)
  formData,      \* JobApplicationForm draft
  errors,        \* JobApplicationForm error map
  isSubmitting,
  isSubmitted,
  submission,    \* the handleSubmit invocation suspended at its await
  userEmail      \* user?.email seen by the form

authVars == <<state, localStorage, effectRan, calls, now, lastOp>>
formVars == <<formData, errors, isSubmitting, isSubmitted, submission, userEmail>>
vars == <<state, localStorage, effectRan, calls, now, lastOp,
          formData, errors, isSubmitting, isSubmitted, submission, userEmail>>

\* ---------------------------------------------------------------- bounds
MaxCalls == 3    \* auth operations started in one run
MaxClock == 1    \* readings of Date.now() range over 0..MaxClock

\* ------------------------------------------------------- JavaScript values
Null == [t |-> "null"]
Str(v) == [t |-> "string", v |-> v]

\* JavaScript truthiness of a value that is null or a string
Truthy(x) == x # Null /\ Len(x.v) > 0

\* ------------------------------------------------------------------ JSON
KeyOrder == <<"id", "email", "name", "avatar", "provider", "createdAt">>

RECURSIVE StringifyFrom(_, _)
StringifyFrom(obj, i) ==
  IF i > Len(KeyOrder) THEN <<>>
  ELSE (IF KeyOrder[i] \in DOMAIN obj
          THEN <<KeyOrder[i], obj[KeyOrder[i]]>>
          ELSE <<>>) \o StringifyFrom(obj, i + 1)

\* JSON.stringify of a value: null, or an object of string properties
\* (properties that were never set, such as avatar, do not appear).
JSONStringify(x) ==
  IF x = Null THEN <<"null">>
  ELSE <<"{">> \o StringifyFrom(x, 1) \o <<"}">>

\* mutant: the last property of the object is lost
JSONParse_dropLastKey(text) ==
  LET n == Len(text)
      m == ((n - 2) \div 2) - 1
      keyAt(j) == text[2 * j]
      valAt(j) == text[2 * j + 1]
  IN IF text = <<"null">>
       THEN [ok |-> TRUE, value |-> Null]
     ELSE IF n >= 2 /\ text[1] = "{" /\ text[n] = "}" /\ n % 2 = 0
       THEN [ok |-> TRUE,
             value |-> [key \in {keyAt(j) : j \in 1..m} |->
                          valAt(CHOOSE j \in 1..m : keyAt(j) = key)]]
     ELSE [ok |-> FALSE, value |-> Null]

\* JSON.parse of a text: the value, or a SyntaxError
JSONParse(text) ==
  LET n == Len(text)
      m == (n - 2) \div 2
      keyAt(j) == text[2 * j]
      valAt(j) == text[2 * j + 1]
  IN IF text = <<"null">>
       THEN [ok |-> TRUE, value |-> Null]
     ELSE IF /\ n >= 2
             /\ text[1] = "{"
             /\ text[n] = "}"
             /\ n % 2 = 0
             /\ \A j \in 1..m : keyAt(j) \notin {"{", "}", "null"}
             /\ \A j, k \in 1..m : keyAt(j) = keyAt(k) => j = k
       THEN [ok |-> TRUE,
             value |-> [key \in {keyAt(j) : j \in 1..m} |->
                          valAt(CHOOSE j \in 1..m : keyAt(j) = key)]]
     ELSE [ok |-> FALSE, value |-> Null]

\* ---------------------------------------------------------------- reducer
initialState ==
  [user |-> Null, token |-> Null, isLoading |-> TRUE, isAuthenticated |-> FALSE]

\* mutant: SET_USER forgets the token
authReducer_setUserNoToken(s, action) ==
  CASE action.type = "SET_LOADING" ->
         [s EXCEPT !.isLoading = action.payload]
    [] action.type = "SET_USER" ->
         [s EXCEPT !.user = action.payload.user,
                   !.isAuthenticated = TRUE,
                   !.isLoading = FALSE]
    [] action.type = "CLEAR_USER" ->
         [user |-> Null, token |-> Null, isAuthenticated |-> FALSE, isLoading |-> FALSE]
    [] OTHER -> s

authReducer(s, action) ==
  CASE action.type = "SET_LOADING" ->
         [s EXCEPT !.isLoading = action.payload]
    [] action.type = "SET_USER" ->
         [s EXCEPT !.user = action.payload.user,
                   !.token = action.payload.token,
                   !.isAuthenticated = TRUE,
                   !.isLoading = FALSE]
    [] action.type = "CLEAR_USER" ->
         [user |-> Null, token |-> Null, isAuthenticated |-> FALSE, isLoading |-> FALSE]
    [] OTHER -> s

\* ---------------------------------------------------------------- mockAPI
ISODate(t) == "T" \o ToString(t)

\* mockAPI.login after its delay, at clock reading t: a response or an Error
mockLogin(credentials, t) ==
  IF credentials.email = "user@example.com" /\ credentials.password = "password123"
    THEN [ok |-> TRUE,
          response |-> [user |-> [id |-> "1", email |-> credentials.email,
                                  name |-> "John Doe", provider |-> "email",
                                  createdAt |-> ISODate(t)],
                        token |-> Str("mock-jwt-token-" \o ToString(t))]]
    ELSE [ok |-> FALSE, response |-> Null]

mockSignup(credentials, t) ==
  [ok |-> TRUE,
   response |-> [user |-> [id |-> ToString(t), email |-> credentials.email,
                           name |-> credentials.name, provider |-> "email",
                           createdAt |-> ISODate(t)],
                 token |-> Str("mock-jwt-token-" \o ToString(t))]]

mockGoogleLogin(t) ==
  [ok |-> TRUE,
   response |-> [user |-> [id |-> "google-" \o ToString(t), email |-> "user@gmail.com",
                           name |-> "Google User", avatar |-> "https://images.pexels.com/a.jpeg",
                           provider |-> "google", createdAt |-> ISODate(t)],
                 token |-> Str("mock-google-jwt-token-" \o ToString(t))]]

\* ----------------------------------------------------------------- inputs
LoginInputs ==
  { [email |-> "user@example.com", password |-> "password123"],
    [email |-> "user@example.com", password |-> "wrong"] }

SignupInputs ==
  { [email |-> "new@example.com", name |-> "New User", password |-> "secret"] }

\* what localStorage may hold at startup under each key
StoredUsers ==
  { mockLogin([email |-> "user@example.com", password |-> "password123"], 0).response.user,
    mockGoogleLogin(0).response.user }

StoredTokens == { Null, Str(""), Str("mock-jwt-token-0") }

StoredUserData ==
  { Null, Str(<<>>), Str(<<"{", "id">>), Str(<<"null">>) }
    \cup { Str(JSONStringify(u)) : u \in StoredUsers }

\* ------------------------------------------------------------------- form
\* errors[name] when the key is absent or was set to undefined by an edit.
\* Every read of the error map is errors[name], and Object.keys is applied
\* only to the fresh newErrors, so the two cases are one value here.
Undefined == "undefined"

ErrorSlots ==
  {"fullName", "email", "phone", "experience", "currentCompany", "skills", "declaration"}

\* {} : every slot reads undefined
noErrors == [f \in ErrorSlots |-> Undefined]

initialFormData(email) ==
  [fullName |-> <<>>, email |-> email, phone |-> <<>>, experience |-> <<>>,
   employmentStatus |-> "", currentCompany |-> <<>>, skills |-> <<>>,
   declaration |-> FALSE]

FormIdle ==
  /\ formData = initialFormData(<<>>)
  /\ errors = noErrors
  /\ isSubmitting = FALSE
  /\ isSubmitted = FALSE
  /\ submission = Null
  /\ userEmail = <<>>

\* ------------------------------------------------------- Session Store
AuthInit ==
  /\ state = initialState
  /\ localStorage \in [auth_token : StoredTokens, user_data : StoredUserData]
  /\ effectRan = FALSE
  /\ calls = <<>>
  /\ now = 0
  /\ lastOp = [type |-> "init", id |-> 0]

Init == AuthInit /\ FormIdle

removeItem(store, key) == [store EXCEPT ![key] = Null]
setItem(store, key, value) == [store EXCEPT ![key] = Str(value)]

\* the branch the mount effect takes on a given storage (history label)
RestoreBranch(store) ==
  IF ~(Truthy(store.auth_token) /\ Truthy(store.user_data)) THEN "restore-skip"
  ELSE IF JSONParse(store.user_data.v).ok THEN "restore-set"
  ELSE "restore-purge"

Restored(op) == op.type \in {"restore-skip", "restore-set", "restore-purge"}

\* mutant: the catch block removes auth_token only
Restore_purgeTokenOnly ==
  /\ ~effectRan
  /\ LET token == localStorage.auth_token
         userData == localStorage.user_data
         parsed == JSONParse(userData.v)
         s1 == IF Truthy(token) /\ Truthy(userData) /\ parsed.ok
                 THEN authReducer(state, [type |-> "SET_USER",
                        payload |-> [user |-> parsed.value, token |-> token]])
                 ELSE state
     IN /\ localStorage' =
             IF Truthy(token) /\ Truthy(userData) /\ ~parsed.ok
               THEN removeItem(localStorage, "auth_token")
               ELSE localStorage
        /\ state' = authReducer(s1, [type |-> "SET_LOADING", payload |-> FALSE])
  /\ effectRan' = TRUE
  /\ lastOp' = [type |-> RestoreBranch(localStorage), id |-> 0]
  /\ UNCHANGED <<calls, now>>
  /\ UNCHANGED formVars

\* useEffect(() => {...}, []) of AuthProvider.  React flushes the mount
\* effect before it handles any user event, so it runs before every handler.
Restore ==
  /\ ~effectRan
  /\ LET token == localStorage.auth_token
         userData == localStorage.user_data
         parsed == JSONParse(userData.v)
         s1 == IF Truthy(token) /\ Truthy(userData) /\ parsed.ok
                 THEN authReducer(state, [type |-> "SET_USER",
                        payload |-> [user |-> parsed.value, token |-> token]])
                 ELSE state
     IN /\ localStorage' =
             IF Truthy(token) /\ Truthy(userData) /\ ~parsed.ok
               THEN removeItem(removeItem(localStorage, "auth_token"), "user_data")
               ELSE localStorage
        /\ state' = authReducer(s1, [type |-> "SET_LOADING", payload |-> FALSE])
  /\ effectRan' = TRUE
  /\ lastOp' = [type |-> RestoreBranch(localStorage), id |-> 0]
  /\ UNCHANGED <<calls, now>>
  /\ UNCHANGED formVars

\* the part of login / signup / loginWithGoogle before the await
StartCall(op, credentials) ==
  /\ effectRan
  /\ Len(calls) < MaxCalls
  /\ state' = authReducer(state, [type |-> "SET_LOADING", payload |-> TRUE])
  /\ calls' = Append(calls, [op |-> op, credentials |-> credentials, status |-> "pending"])
  /\ lastOp' = [type |-> "start", id |-> Len(calls) + 1]
  /\ UNCHANGED <<localStorage, now>>
  /\ UNCHANGED formVars

\* mutant: the catch block re-throws without resetting the loading flag
SettleCall_catchKeepsLoading(i, result, t) ==
  /\ now' = t
  /\ IF result.ok
       THEN /\ localStorage' =
                 setItem(setItem(localStorage, "auth_token", result.response.token.v),
                         "user_data", JSONStringify(result.response.user))
            /\ state' = authReducer(state, [type |-> "SET_USER", payload |-> result.response])
            /\ calls' = [calls EXCEPT ![i].status = "fulfilled"]
            /\ lastOp' = [type |-> "fulfilled", id |-> i]
       ELSE /\ state' = state
            /\ calls' = [calls EXCEPT ![i].status = "rejected"]
            /\ lastOp' = [type |-> "rejected", id |-> i]
            /\ UNCHANGED localStorage
  /\ UNCHANGED effectRan
  /\ UNCHANGED formVars

\* mutant: a response is dropped when a session is already held
SettleCall_firstWriterWins(i, result, t) ==
  /\ now' = t
  /\ IF result.ok /\ ~state.isAuthenticated
       THEN /\ localStorage' =
                 setItem(setItem(localStorage, "auth_token", result.response.token.v),
                         "user_data", JSONStringify(result.response.user))
            /\ state' = authReducer(state, [type |-> "SET_USER", payload |-> result.response])
            /\ calls' = [calls EXCEPT ![i].status = "fulfilled"]
            /\ lastOp' = [type |-> "fulfilled", id |-> i]
       ELSE /\ state' = authReducer(state, [type |-> "SET_LOADING", payload |-> FALSE])
            /\ calls' = [calls EXCEPT ![i].status = IF result.ok THEN "fulfilled" ELSE "rejected"]
            /\ lastOp' = [type |-> IF result.ok THEN "fulfilled" ELSE "rejected", id |-> i]
            /\ UNCHANGED localStorage
  /\ UNCHANGED effectRan
  /\ UNCHANGED formVars

\* the part after the await: the try body on a response, the catch on an Error
SettleCall(i, result, t) ==
  /\ now' = t
  /\ IF result.ok
       THEN /\ localStorage' =
                 setItem(setItem(localStorage, "auth_token", result.response.token.v),
                         "user_data", JSONStringify(result.response.user))
            /\ state' = authReducer(state, [type |-> "SET_USER", payload |-> result.response])
            /\ calls' = [calls EXCEPT ![i].status = "fulfilled"]
            /\ lastOp' = [type |-> "fulfilled", id |-> i]
       ELSE /\ state' = authReducer(state, [type |-> "SET_LOADING", payload |-> FALSE])
            /\ calls' = [calls EXCEPT ![i].status = "rejected"]
            /\ lastOp' = [type |-> "rejected", id |-> i]
            /\ UNCHANGED localStorage
  /\ UNCHANGED effectRan
  /\ UNCHANGED formVars

login(credentials) == StartCall("login", credentials) /\ UNCHANGED effectRan

signup(credentials) == StartCall("signup", credentials) /\ UNCHANGED effectRan

loginWithGoogle == StartCall("loginWithGoogle", Null) /\ UNCHANGED effectRan

Pending(i, op) == i \in DOMAIN calls /\ calls[i].op = op /\ calls[i].status = "pending"

loginSettled(i) ==
  /\ Pending(i, "login")
  /\ \E t \in now..MaxClock : SettleCall(i, mockLogin(calls[i].credentials, t), t)

signupSettled(i) ==
  /\ Pending(i, "signup")
  /\ \E t \in now..MaxClock : SettleCall(i, mockSignup(calls[i].credentials, t), t)

loginWithGoogleSettled(i) ==
  /\ Pending(i, "loginWithGoogle")
  /\ \E t \in now..MaxClock : SettleCall(i, mockGoogleLogin(t), t)

\* mutant: user_data is left in localStorage
logout_keepUserData ==
  /\ effectRan
  /\ localStorage' = removeItem(localStorage, "auth_token")
  /\ state' = authReducer(state, [type |-> "CLEAR_USER"])
  /\ lastOp' = [type |-> "logout", id |-> 0]
  /\ UNCHANGED <<effectRan, calls, now>>
  /\ UNCHANGED formVars

logout ==
  /\ effectRan
  /\ localStorage' = removeItem(removeItem(localStorage, "auth_token"), "user_data")
  /\ state' = authReducer(state, [type |-> "CLEAR_USER"])
  /\ lastOp' = [type |-> "logout", id |-> 0]
  /\ UNCHANGED <<effectRan, calls, now>>
  /\ UNCHANGED formVars

Next ==
  \/ Restore
  \/ \E c \in LoginInputs : login(c)
  \/ \E c \in SignupInputs : signup(c)
  \/ loginWithGoogle
  \/ \E i \in 1..MaxCalls : loginSettled(i)
  \/ \E i \in 1..MaxCalls : signupSettled(i)
  \/ \E i \in 1..MaxCalls : loginWithGoogleSettled(i)
  \/ logout

Spec == Init /\ [][Next]_vars

\* every simulated backend call resolves; the mount effect runs
Fairness ==
  /\ WF_vars(Restore)
  /\ \A i \in 1..MaxCalls :
       /\ WF_vars(loginSettled(i))
       /\ WF_vars(signupSettled(i))
       /\ WF_vars(loginWithGoogleSettled(i))

FairSpec == Spec /\ Fairness
\* ===================================================== Application Form
Letters ==
  {"a", "b", "c", "d", "e", "f", "g", "h", "i", "j", "k", "l", "m",
   "n", "o", "p", "q", "r", "s", "t", "u", "v", "w", "x", "y", "z",
   "A", "B", "C", "D", "E", "F", "G", "H", "I", "J", "K", "L", "M",
   "N", "O", "P", "Q", "R", "S", "T", "U", "V", "W", "X", "Y", "Z"}
Digits == {"0", "1", "2", "3", "4", "5", "6", "7", "8", "9"}
Whitespace == {" ", "\t", "\n"}
NameChars == Letters \cup Whitespace \cup {"-", "'"}

\* String.prototype.trim
RECURSIVE trimStart(_)
trimStart(s) ==
  IF s # <<>> /\ Head(s) \in Whitespace THEN trimStart(Tail(s)) ELSE s

RECURSIVE trimEnd(_)
trimEnd(s) ==
  IF s # <<>> /\ s[Len(s)] \in Whitespace THEN trimEnd(SubSeq(s, 1, Len(s) - 1)) ELSE s

trim(s) == trimEnd(trimStart(s))

\* s.slice(0, n)
slice0(s, n) == SubSeq(s, 1, IF Len(s) < n THEN Len(s) ELSE n)

\* parseInt(s): leading whitespace, an optional sign, the longest run of digits
DigitValue(c) == CHOOSE d \in 0..9 : ToString(d) = c

RECURSIVE digitPrefix(_)
digitPrefix(s) ==
  IF s # <<>> /\ Head(s) \in Digits THEN <<Head(s)>> \o digitPrefix(Tail(s)) ELSE <<>>

RECURSIVE decimal(_)
decimal(ds) ==
  IF ds = <<>> THEN 0
  ELSE 10 * decimal(SubSeq(ds, 1, Len(ds) - 1)) + DigitValue(ds[Len(ds)])

parseInt(s) ==
  LET t == trimStart(s)
      signed == t # <<>> /\ Head(t) \in {"-", "+"}
      ds == digitPrefix(IF signed THEN Tail(t) ELSE t)
  IN IF ds = <<>> THEN [isNaN |-> TRUE, n |-> 0]
     ELSE [isNaN |-> FALSE,
           n |-> IF signed /\ Head(t) = "-" THEN 0 - decimal(ds) ELSE decimal(ds)]

\* /^[^\s@]+@[^\s@]+\.[^\s@]+$/
validateEmail(email) ==
  LET plain(i, j) == i <= j /\ \A k \in i..j : email[k] \notin Whitespace \cup {"@"}
  IN \E a \in 1..Len(email) : \E d \in 1..Len(email) :
       /\ email[a] = "@"
       /\ email[d] = "."
       /\ plain(1, a - 1)
       /\ plain(a + 1, d - 1)
       /\ plain(d + 1, Len(email))

\* /^\d{10}$/
PhoneDigits == 10
validatePhone(phone) == Len(phone) = PhoneDigits /\ \A k \in 1..Len(phone) : phone[k] \in Digits

\* /^[a-zA-Z\s\-']+$/ on the trimmed name, and trimmed length >= 2
MinNameLength == 2
validateFullName(name) ==
  /\ trim(name) # <<>>
  /\ \A k \in 1..Len(trim(name)) : trim(name)[k] \in NameChars
  /\ Len(trim(name)) >= MinNameLength

skillOptions == <<"React", "Python", "Java", "SQL", "AWS">>

NoError == Undefined

fullNameError(fd) ==
  IF trim(fd.fullName) = <<>> THEN "Full name is required"
  ELSE IF ~validateFullName(fd.fullName)
    THEN "Full name must contain only letters, spaces, hyphens, and apostrophes"
  ELSE NoError

emailError(fd) ==
  IF trim(fd.email) = <<>> THEN "Email is required"
  ELSE IF ~validateEmail(fd.email) THEN "Please enter a valid email address"
  ELSE NoError

phoneError(fd) ==
  IF trim(fd.phone) = <<>> THEN "Phone number is required"
  ELSE IF ~validatePhone(fd.phone) THEN "Phone number must be exactly 10 digits"
  ELSE NoError

\* mutant: the employment-status check is an else-branch of the experience check
experienceError_statusAfterOwn(fd) ==
  LET own == IF trim(fd.experience) = <<>> THEN "Experience is required"
             ELSE IF parseInt(fd.experience).n < 0 \/ parseInt(fd.experience).isNaN
               THEN "Experience must be 0 or greater"
             ELSE NoError
  IN IF own = NoError /\ fd.employmentStatus = ""
       THEN "Please select your employment status"
       ELSE own

\* the experience slot: the employment-status check assigns the same slot
experienceError(fd) ==
  LET own == IF trim(fd.experience) = <<>> THEN "Experience is required"
             ELSE IF parseInt(fd.experience).n < 0 \/ parseInt(fd.experience).isNaN
               THEN "Experience must be 0 or greater"
             ELSE NoError
  IN IF fd.employmentStatus = "" THEN "Please select your employment status" ELSE own

currentCompanyError(fd) ==
  IF fd.employmentStatus = "yes" /\ trim(fd.currentCompany) = <<>>
    THEN "Current company name is required"
    ELSE NoError

skillsError(fd) ==
  IF Len(fd.skills) = 0 THEN "Please select at least one skill" ELSE NoError

declarationError(fd) ==
  IF ~fd.declaration THEN "You must confirm the information is true" ELSE NoError

\* newErrors as validateForm builds it
validateForm(fd) ==
  [fullName |-> fullNameError(fd), email |-> emailError(fd),
   phone |-> phoneError(fd), experience |-> experienceError(fd),
   currentCompany |-> currentCompanyError(fd), skills |-> skillsError(fd),
   declaration |-> declarationError(fd)]

\* Object.keys(newErrors).length === 0
isEmpty(newErrors) == \A f \in ErrorSlots : newErrors[f] = Undefined

\* errors[name] is truthy
HasMessage(errs, name) == name \in DOMAIN errs /\ errs[name] # Undefined

\* ---------------------------------------------------------- form inputs
MaxSkill == 2    \* the skill checkboxes toggled are skillOptions[1..MaxSkill]

SkillInputs == {skillOptions[i] : i \in 1..(IF MaxSkill < Len(skillOptions) THEN MaxSkill ELSE Len(skillOptions))}

NameInputs == { <<>>, <<"J">>, <<"J", "o", "1">> }
EmailInputs == { <<"a", "@", "b">>, <<"a", "@", "b", ".", "c">> }
PhoneInputs ==
  { <<"1", "2", "a", "3", "4">>,
    <<"1", "2", "3", "4", "5", "6", "7", "8", "9", "0", "1">> }
ExperienceInputs == { <<"-", "1">>, <<"a", "b">> }
CompanyInputs == { <<>>, <<"A", "c", "m", "e">> }
UserEmails == { <<>>, <<"a", "@", "b", ".", "c">> }

\* the change event of an input: e.target's name, type, value and checked
ChangeEvent(name, type, value, checked) ==
  [name |-> name, type |-> type, value |-> value, checked |-> checked]

\* the event is one the rendered, controlled input can deliver now
Deliverable(e) ==
  /\ ~isSubmitted
  /\ e.name = "currentCompany" => formData.employmentStatus = "yes"
  /\ e.name = "employmentStatus" => e.value # formData.employmentStatus
  /\ e.name = "declaration" => e.checked = ~formData.declaration
  /\ e.name = "skills" => e.checked = ~(\E k \in 1..Len(formData.skills) : formData.skills[k] = e.value)

AuthIdle ==
  /\ state = initialState
  /\ localStorage = [auth_token |-> Null, user_data |-> Null]
  /\ effectRan = FALSE
  /\ calls = <<>>
  /\ now = 0
  /\ lastOp = [type |-> "init", id |-> 0]

FormInit ==
  /\ AuthIdle
  /\ userEmail \in UserEmails
  /\ formData = initialFormData(userEmail)
  /\ errors = noErrors
  /\ isSubmitting = FALSE
  /\ isSubmitted = FALSE
  /\ submission = Null

\* mutant: the phone value is not truncated
storedValue_phoneNoSlice(fd, e) ==
  IF e.type = "checkbox" /\ e.name = "skills"
    THEN IF \E k \in 1..Len(fd.skills) : fd.skills[k] = e.value
           THEN SelectSeq(fd.skills, LAMBDA s : s # e.value)
           ELSE Append(fd.skills, e.value)
  ELSE IF e.type = "checkbox" THEN e.checked
  ELSE IF e.name = "fullName" THEN SelectSeq(e.value, LAMBDA c : c \in NameChars)
  ELSE IF e.name = "phone" THEN SelectSeq(e.value, LAMBDA c : c \in Digits)
  ELSE IF e.name = "experience" THEN SelectSeq(e.value, LAMBDA c : c \in Digits)
  ELSE e.value

\* mutant: a checked skill is appended whether or not it is already there
storedValue_skillsAlwaysAppend(fd, e) ==
  IF e.type = "checkbox" /\ e.name = "skills"
    THEN Append(fd.skills, e.value)
  ELSE IF e.type = "checkbox" THEN e.checked
  ELSE IF e.name = "fullName" THEN SelectSeq(e.value, LAMBDA c : c \in NameChars)
  ELSE IF e.name = "phone"
    THEN slice0(SelectSeq(e.value, LAMBDA c : c \in Digits), PhoneDigits)
  ELSE IF e.name = "experience" THEN SelectSeq(e.value, LAMBDA c : c \in Digits)
  ELSE e.value

\* mutant: the experience value is stored as typed
storedValue_experienceVerbatim(fd, e) ==
  IF e.type = "checkbox" /\ e.name = "skills"
    THEN IF \E k \in 1..Len(fd.skills) : fd.skills[k] = e.value
           THEN SelectSeq(fd.skills, LAMBDA s : s # e.value)
           ELSE Append(fd.skills, e.value)
  ELSE IF e.type = "checkbox" THEN e.checked
  ELSE IF e.name = "fullName" THEN SelectSeq(e.value, LAMBDA c : c \in NameChars)
  ELSE IF e.name = "phone"
    THEN slice0(SelectSeq(e.value, LAMBDA c : c \in Digits), PhoneDigits)
  ELSE e.value

\* the value handleInputChange stores for the event
storedValue(fd, e) ==
  IF e.type = "checkbox" /\ e.name = "skills"
    THEN IF \E k \in 1..Len(fd.skills) : fd.skills[k] = e.value
           THEN SelectSeq(fd.skills, LAMBDA s : s # e.value)
           ELSE Append(fd.skills, e.value)
  ELSE IF e.type = "checkbox" THEN e.checked
  ELSE IF e.name = "fullName" THEN SelectSeq(e.value, LAMBDA c : c \in NameChars)
  ELSE IF e.name = "phone"
    THEN slice0(SelectSeq(e.value, LAMBDA c : c \in Digits), PhoneDigits)
  ELSE IF e.name = "experience" THEN SelectSeq(e.value, LAMBDA c : c \in Digits)
  ELSE e.value

handleInputChange(e) ==
  /\ Deliverable(e)
  /\ formData' = [formData EXCEPT ![e.name] = storedValue(formData, e)]
  /\ errors' = IF HasMessage(errors, e.name)
                 THEN [errors EXCEPT ![e.name] = Undefined]
                 ELSE errors
  /\ UNCHANGED <<isSubmitting, isSubmitted, submission, userEmail>>
  /\ UNCHANGED authVars

\* mutant: the failing branch returns before setIsSubmitting(false)
handleSubmit_failureKeepsSubmitting ==
  /\ ~isSubmitted
  /\ ~isSubmitting
  /\ errors' = validateForm(formData)
  /\ isSubmitting' = TRUE
  /\ submission' = IF isEmpty(validateForm(formData)) THEN [formData |-> formData] ELSE Null
  /\ UNCHANGED <<formData, isSubmitted, userEmail>>
  /\ UNCHANGED authVars

\* mutant: the result of validateForm is ignored
handleSubmit_ignoresValidation ==
  /\ ~isSubmitted
  /\ ~isSubmitting
  /\ errors' = validateForm(formData)
  /\ isSubmitting' = TRUE
  /\ submission' = [formData |-> formData]
  /\ UNCHANGED <<formData, isSubmitted, userEmail>>
  /\ UNCHANGED authVars

\* handleSubmit up to its await (valid form) or to its end (invalid form);
\* the submit button is disabled while isSubmitting
handleSubmit ==
  /\ ~isSubmitted
  /\ ~isSubmitting
  /\ LET newErrors == validateForm(formData)
     IN /\ errors' = newErrors
        /\ IF isEmpty(newErrors)
             THEN /\ isSubmitting' = TRUE
                  /\ submission' = [formData |-> formData]
             ELSE /\ isSubmitting' = FALSE
                  /\ submission' = Null
  /\ UNCHANGED <<formData, isSubmitted, userEmail>>
  /\ UNCHANGED authVars

\* handleSubmit after its await: the draft it validated is logged
handleSubmitResumed ==
  /\ submission # Null
  /\ isSubmitted' = TRUE
  /\ isSubmitting' = FALSE
  /\ submission' = Null
  /\ UNCHANGED <<formData, errors, userEmail>>
  /\ UNCHANGED authVars

\* onClick of "Submit Another Application"
submitAnother ==
  /\ isSubmitted
  /\ isSubmitted' = FALSE
  /\ formData' = initialFormData(userEmail)
  /\ errors' = noErrors
  /\ UNCHANGED <<isSubmitting, submission, userEmail>>
  /\ UNCHANGED authVars

\* the change events of the rendered inputs, one action per input
changeFullName ==
  \E v \in NameInputs : handleInputChange(ChangeEvent("fullName", "text", v, FALSE))

changeEmail ==
  \E v \in EmailInputs : handleInputChange(ChangeEvent("email", "email", v, FALSE))

changePhone ==
  \E v \in PhoneInputs : handleInputChange(ChangeEvent("phone", "tel", v, FALSE))

changeExperience ==
  \E v \in ExperienceInputs : handleInputChange(ChangeEvent("experience", "text", v, FALSE))

changeEmploymentStatus ==
  \E v \in {"yes", "no"} : handleInputChange(ChangeEvent("employmentStatus", "radio", v, TRUE))

changeCurrentCompany ==
  \E v \in CompanyInputs : handleInputChange(ChangeEvent("currentCompany", "text", v, FALSE))

changeSkills ==
  \E v \in SkillInputs : \E b \in BOOLEAN :
    handleInputChange(ChangeEvent("skills", "checkbox", v, b))

changeDeclaration ==
  \E b \in BOOLEAN : handleInputChange(ChangeEvent("declaration", "checkbox", "on", b))

FormNext ==
  \/ changeFullName
  \/ changeEmail
  \/ changePhone
  \/ changeExperience
  \/ changeEmploymentStatus
  \/ changeCurrentCompany
  \/ changeSkills
  \/ changeDeclaration
  \/ handleSubmit
  \/ handleSubmitResumed
  \/ submitAnother

FormSpec == FormInit /\ [][FormNext]_vars

\* =============================================================== claims
Unauthenticated == [user |-> Null, token |-> Null, isAuthenticated |-> FALSE, isLoading |-> FALSE]
NoKeys == [auth_token |-> Null, user_data |-> Null]
InFlight == {i \in DOMAIN calls : calls[i].status = "pending"}

\* the response call i received at clock reading t
ResponseOf(i, t) ==
  CASE calls[i].op = "login" -> mockLogin(calls[i].credentials, t).response
    [] calls[i].op = "signup" -> mockSignup(calls[i].credentials, t).response
    [] calls[i].op = "loginWithGoogle" -> mockGoogleLogin(t).response

\* C1: in every reachable state isAuthenticated is true exactly when user
\* and token are both non-null.
C1_AuthIffUserAndToken ==
  state.isAuthenticated <=> (state.user # Null /\ state.token # Null)

\* C2: a logout step, from any prior state, leaves the store at
\* {user: null, token: null, isAuthenticated: false, isLoading: false} and
\* both storage keys absent, and starts or settles no backend call.
C2_LogoutClears ==
  [][lastOp'.type = "logout" =>
       /\ state' = Unauthenticated
       /\ localStorage' = NoKeys
       /\ calls' = calls]_vars

\* logout has just run while two calls were in flight, after one had succeeded
C2_Witness ==
  /\ lastOp.type = "logout"
  /\ Cardinality(InFlight) >= 2
  /\ \E i \in DOMAIN calls : calls[i].status = "fulfilled"

\* C3: when storage holds a token and a syntactically valid user record at
\* startup, restore ends authenticated and non-loading, with user and token
\* equal to the stored values.
C3_RestoreValid ==
  [][\A u \in StoredUsers :
       (/\ Restored(lastOp')
        /\ Truthy(localStorage.auth_token)
        /\ localStorage.user_data = Str(JSONStringify(u)))
       => /\ state'.isAuthenticated
          /\ ~state'.isLoading
          /\ state'.user = u
          /\ state'.token = localStorage.auth_token]_vars

\* restore has run on a stored token and the stored record of a user that
\* has an avatar property
C3_Witness ==
  /\ lastOp.type = "restore-set"
  /\ localStorage.auth_token = Str("mock-jwt-token-0")
  /\ localStorage.user_data = Str(JSONStringify(mockGoogleLogin(0).response.user))
  /\ state.isAuthenticated
  /\ "avatar" \in DOMAIN state.user

\* the stored user record is there and is not valid structured data
InvalidRecord(x) == x # Null /\ ~JSONParse(x.v).ok

\* C4, as stated: when the stored user record is not valid structured data,
\* whether or not a token is stored, restore ends unauthenticated and both
\* storage keys are absent afterwards.
C4_AsStated ==
  [][(Restored(lastOp') /\ InvalidRecord(localStorage.user_data))
       => (~state'.isAuthenticated /\ localStorage' = NoKeys)]_vars

\* C4, amended: when the stored user record is not valid structured data,
\* restore ends unauthenticated; both storage keys are absent afterwards when
\* a non-empty token and a non-empty record were stored, and storage is left
\* as it was otherwise.
C4_RestoreInvalid ==
  [][(Restored(lastOp') /\ InvalidRecord(localStorage.user_data))
       => /\ ~state'.isAuthenticated
          /\ ~state'.isLoading
          /\ localStorage' =
               IF Truthy(localStorage.auth_token) /\ Truthy(localStorage.user_data)
                 THEN NoKeys
                 ELSE localStorage]_vars

\* restore has purged a stored token and a stored record that does not parse
C4_Witness ==
  /\ lastOp.type = "restore-purge"
  /\ localStorage = NoKeys
  /\ state = Unauthenticated

\* C5, as stated: after a rejected login, from any prior state, the store is
\* unauthenticated and non-loading and the error has reached the caller.
C5_AsStated ==
  lastOp.type = "rejected" =>
    /\ ~state.isAuthenticated
    /\ ~state.isLoading
    /\ calls[lastOp.id].status = "rejected"

\* C5, amended: a rejected login makes the store non-loading and leaves user,
\* token, isAuthenticated and storage as they were (so the store is
\* unauthenticated whenever it was before), and the error reaches the caller.
C5_RejectedLogin ==
  [][lastOp'.type = "rejected" =>
       /\ state' = [state EXCEPT !.isLoading = FALSE]
       /\ localStorage' = localStorage
       /\ calls'[lastOp'.id].status = "rejected"
       /\ calls[lastOp'.id].op = "login"]_vars

\* a login was rejected while the store held a restored session
C5_Witness ==
  /\ lastOp.type = "rejected"
  /\ state.isAuthenticated
  /\ ~state.isLoading

\* C6: when login, signup or loginWithGoogle succeeds, both storage keys
\* hold the token and the user of the response, the stored record parses
\* back to that user, and the store is authenticated and non-loading with
\* that user and token.
C6_SuccessPersists ==
  lastOp.type = "fulfilled" =>
    LET r == ResponseOf(lastOp.id, now)
    IN /\ localStorage = [auth_token |-> r.token, user_data |-> Str(JSONStringify(r.user))]
       /\ JSONParse(localStorage.user_data.v) = [ok |-> TRUE, value |-> r.user]
       /\ state = [user |-> r.user, token |-> r.token,
                   isAuthenticated |-> TRUE, isLoading |-> FALSE]

\* each of the three operations has succeeded, the last one over another session
C6_Witness ==
  /\ lastOp.type = "fulfilled"
  /\ \A op \in {"login", "signup", "loginWithGoogle"} :
       \E i \in DOMAIN calls : calls[i].op = op /\ calls[i].status = "fulfilled"

\* C7: under fairness a loading store always reaches isLoading = false, and
\* once restore is done and no operation is in flight isLoading is false.
C7_LoadingResolves ==
  /\ state.isLoading ~> ~state.isLoading
  /\ [](effectRan /\ InFlight = {} => ~state.isLoading)

\* every started call has settled, one with a response and one with an error
C7_Witness ==
  /\ effectRan
  /\ Len(calls) >= 2
  /\ InFlight = {}
  /\ \E i \in DOMAIN calls : calls[i].status = "rejected"
  /\ \E i \in DOMAIN calls : calls[i].status = "fulfilled"
  /\ ~state.isLoading
\* no slot of the error map holds a message
NoMessages(errs) == \A f \in ErrorSlots : ~HasMessage(errs, f)

\* C8: the form goes editing -> submitting -> submitted: a submit whose
\* validation fails returns to editing with a message in the error map and
\* the submitted flag unset; the flag is set only from submitting; and the
\* only step that clears the flag is the "submit another" reset.
C8_FormStateMachine ==
  [][/\ (handleSubmit /\ ~isEmpty(validateForm(formData)))
          => (~isSubmitting' /\ ~isSubmitted' /\ submission' = Null /\ ~NoMessages(errors'))
     /\ (~isSubmitting /\ isSubmitting') => (~isSubmitted /\ handleSubmit)
     /\ (~isSubmitted /\ isSubmitted') => (isSubmitting /\ ~isSubmitting')
     /\ (isSubmitted /\ ~isSubmitted') => submitAnother
     /\ isSubmitted => (submitAnother \/ UNCHANGED vars)]_vars

\* a submit has failed validation on a partly filled draft and the form is
\* back in editing
C8_Witness ==
  /\ ~isSubmitted
  /\ ~isSubmitting
  /\ HasMessage(errors, "skills")
  /\ HasMessage(errors, "phone")
  /\ formData.fullName # <<>>

\* C9: a submission is in progress only for a draft on which validateForm
\* found no failing field, and when the submitted flag becomes true no slot
\* of the error map holds a message.
C9_SubmitOnlyIfValid ==
  [][/\ (submission' # submission /\ submission' # Null)
          => isEmpty(validateForm(submission'.formData))
     /\ (~isSubmitted /\ isSubmitted')
          => /\ submission # Null
             /\ isEmpty(validateForm(submission.formData))
             /\ NoMessages(errors')]_vars

\* the flag has been set for the draft of an employed applicant with two skills
C9_Witness ==
  /\ isSubmitted
  /\ NoMessages(errors)
  /\ Len(formData.skills) = 2
  /\ formData.employmentStatus = "yes"

\* the validation message on display for a field: the employment-status
\* message is displayed in the experience slot
MessageShown(errs, field) ==
  IF field = "employmentStatus"
    THEN errs["experience"] = "Please select your employment status"
    ELSE HasMessage(errs, field)

\* C10: an edit of any form field removes the validation message that was
\* being shown for that field.
C10_EditClearsMessage ==
  [][/\ changeFullName => ~MessageShown(errors', "fullName")
     /\ changeEmail => ~MessageShown(errors', "email")
     /\ changePhone => ~MessageShown(errors', "phone")
     /\ changeExperience => ~MessageShown(errors', "experience")
     /\ changeEmploymentStatus => ~MessageShown(errors', "employmentStatus")
     /\ changeCurrentCompany => ~MessageShown(errors', "currentCompany")
     /\ changeSkills => ~MessageShown(errors', "skills")
     /\ changeDeclaration => ~MessageShown(errors', "declaration")]_vars
\* the digits of a text, in order
RECURSIVE DigitsOf(_)
DigitsOf(s) ==
  IF s = <<>> THEN <<>>
  ELSE (IF Head(s) \in Digits THEN <<Head(s)>> ELSE <<>>) \o DigitsOf(Tail(s))

\* the first n characters of a text
FirstN(s, n) == [k \in 1..(IF Len(s) < n THEN Len(s) ELSE n) |-> s[k]]

DigitsOnly(s) == \A k \in 1..Len(s) : s[k] \in Digits

\* C11: the stored phone is digits only and at most 10 long; each input to
\* the phone field is stored as its digits in order, cut to the first 10
\* ("12a34" is stored as "1234").
C11_PhoneFiltered ==
  [][/\ DigitsOnly(formData'.phone) /\ Len(formData'.phone) <= 10
     /\ \A v \in PhoneInputs :
          handleInputChange(ChangeEvent("phone", "tel", v, FALSE))
            => formData'.phone = FirstN(DigitsOf(v), 10)
     /\ handleInputChange(ChangeEvent("phone", "tel", <<"1", "2", "a", "3", "4">>, FALSE))
          => formData'.phone = <<"1", "2", "3", "4">>]_vars

\* an input of eleven digits has been stored, cut to ten
C11_Witness ==
  formData.phone = <<"1", "2", "3", "4", "5", "6", "7", "8", "9", "0">>
\* the skill is in the collection
Selected(skills, v) == \E k \in 1..Len(skills) : skills[k] = v

\* C15: the skills collection has no duplicates and holds catalog names
\* only; a toggle flips the membership of one skill and of no other (every
\* toggle changes the collection), so two toggles of one skill restore the
\* membership.
C15_SkillsToggle ==
  [][formData'.skills # formData.skills =>
       /\ \A j, k \in 1..Len(formData'.skills) :
            formData'.skills[j] = formData'.skills[k] => j = k
       /\ \A k \in 1..Len(formData'.skills) :
            \E c \in 1..Len(skillOptions) : formData'.skills[k] = skillOptions[c]
       /\ changeSkills =>
            \E v \in SkillInputs :
              /\ Selected(formData'.skills, v) <=> ~Selected(formData.skills, v)
              /\ \A c \in 1..Len(skillOptions) :
                   skillOptions[c] # v =>
                     (Selected(formData'.skills, skillOptions[c])
                        <=> Selected(formData.skills, skillOptions[c]))]_vars

\* both toggled skills are selected, Python before React
C15_Witness ==
  formData.skills = <<"Python", "React">>
\* a non-empty text of digits
IntegerText(s) == s # <<>> /\ DigitsOnly(s)

\* C16: when validation runs with no employment status selected, the
\* experience slot holds the employment-status message whatever the
\* experience value is, and the form is rejected; with a status selected the
\* slot holds a message exactly when the experience value itself is invalid.
C16_StatusSharesSlot ==
  [][handleSubmit =>
       /\ formData.employmentStatus = ""
            => /\ errors'.experience = "Please select your employment status"
               /\ ~isSubmitting'
               /\ submission' = Null
       /\ formData.employmentStatus # ""
            => /\ errors'.experience # "Please select your employment status"
               /\ HasMessage(errors', "experience") <=> ~IntegerText(formData.experience)]_vars

\* validation ran with a valid experience and no status: the slot holds the
\* status message
C16_Witness ==
  /\ formData.experience = <<"1">>
  /\ formData.employmentStatus = ""
  /\ errors.experience = "Please select your employment status"

\* C17, as stated: whenever the submitted flag is true the current draft
\* passes whole-form validation.
C17_AsStated ==
  isSubmitted => isEmpty(validateForm(formData))

\* C17, amended: when the submitted flag becomes true, the draft that
\* handleSubmit validated passes whole-form validation, and so does the
\* current draft if it is still that draft; while the flag is true the draft
\* changes only by the reset.
C17_ValidatedDraftValid ==
  [][/\ (~isSubmitted /\ isSubmitted')
          => /\ submission # Null
             /\ isEmpty(validateForm(submission.formData))
             /\ formData' = submission.formData => isEmpty(validateForm(formData'))
     /\ (isSubmitted /\ isSubmitted') => formData' = formData]_vars

\* the flag is set on a draft that was edited during the delay and no
\* longer passes validation
C17_Witness ==
  /\ isSubmitted
  /\ ~isEmpty(validateForm(formData))

\* C19: the stored experience is empty or a text of digits, validateForm
\* never produces 'Experience must be 0 or greater', and with a status
\* selected the experience slot fails exactly on the empty value.
C19_ExperienceNeverNegative ==
  /\ formData.experience = <<>> \/ IntegerText(formData.experience)
  /\ errors.experience # "Experience must be 0 or greater"
  /\ validateForm(formData).experience # "Experience must be 0 or greater"
  /\ formData.employmentStatus # ""
       => (HasMessage(validateForm(formData), "experience") <=> formData.experience = <<>>)

\* the input "-1" was stored as "1" and a validation run left the
\* experience slot without a message
C19_Witness ==
  /\ formData.experience = <<"1">>
  /\ formData.employmentStatus = "no"
  /\ HasMessage(errors, "declaration")
  /\ ~HasMessage(errors, "experience")
\* C12: isLoading is true in every state in which a login, signup or
\* loginWithGoogle call is in flight.
C12_LoadingWhileInFlight ==
  InFlight # {} => state.isLoading

\* C13: calls may overlap, and when one of them succeeds the user and token
\* of its response become the state and the contents of both storage keys,
\* whatever an earlier response had written; state and storage agree, and
\* the other calls stay as they were.
C13_LastWriterWins ==
  [][\A i \in DOMAIN calls :
       (calls[i].status = "pending" /\ calls'[i].status = "fulfilled")
         => LET r == ResponseOf(i, now')
            IN /\ state'.user = r.user
               /\ state'.token = r.token
               /\ localStorage'.auth_token = state'.token
               /\ localStorage'.user_data = Str(JSONStringify(state'.user))
               /\ JSONParse(localStorage'.user_data.v).value = state'.user
               /\ \A j \in DOMAIN calls : j # i => calls'[j] = calls[j]]_vars

\* a call has succeeded after a call of another kind, started later, had
\* succeeded; state and storage hold the response of the one that ended last
C13_Witness ==
  /\ lastOp.type = "fulfilled"
  /\ \E j \in DOMAIN calls :
       /\ j > lastOp.id
       /\ calls[j].status = "fulfilled"
       /\ calls[j].op # calls[lastOp.id].op
  /\ state.user = ResponseOf(lastOp.id, now).user
  /\ localStorage.auth_token = ResponseOf(lastOp.id, now).token

\* both keys are present or both are absent
Paired(store) == (store.auth_token # Null) <=> (store.user_data # Null)

\* C14: the two storage keys change only together: from storage in which
\* auth_token is present exactly when user_data is, every step (restore,
\* login, signup, loginWithGoogle, logout) leads to such storage.
C14_KeysPaired ==
  [][Paired(localStorage) => Paired(localStorage')]_vars

\* both keys were written by a call that succeeded and removed by a logout
C14_Witness ==
  /\ lastOp.type = "logout"
  /\ localStorage = NoKeys
  /\ InFlight = {}
  /\ \E i \in DOMAIN calls : calls[i].status = "fulfilled"

\* C18: after logout the store stays unauthenticated and both keys stay
\* absent until a call is started: the step that follows a logout, unless it
\* starts a call, leaves the store unauthenticated and storage empty.
C18_LogoutIsFinal ==
  [][(lastOp.type = "logout" /\ lastOp'.type # "start")
       => (~state'.isAuthenticated /\ localStorage' = NoKeys)]_vars
====
